---- MODULE Spec2Model ----
(***************************************************************************)
(* Model of src/src/commit_msg/hook.py: the commit-msg linter.             *)
(*                                                                         *)
(* A text is a sequence of one-character strings.  A run of                *)
(* lint_commit_message is a state machine: the message file is read and    *)
(* its comment lines dropped, then the rules are called one after the      *)
(* other; every rule call is one action, made of the call and of the       *)
(* branch on its result that follows it in lint_commit_message.            *)
(* What the run prints is left out, but for the report of a failed         *)
(* title_has_issue_number, whose loop over the hint can raise.             *)
(***************************************************************************)
EXTENDS Integers, Sequences, FiniteSets, TLC

VARIABLES
    file,            \* the content of the file named by sys.argv[1]
    commit_message,  \* the local of lint_commit_message: a list of lines
    pc,              \* the position in lint_commit_message
    flag,            \* the local `flag`
    hint,            \* the local `hint`
    retval,          \* the value returned (-1: none yet)
    exc,             \* the exception that ended the run ("": none)
    calls,           \* history: the rules called, with the result of each
    reads            \* history: the positional accesses into commit_message

vars == <<file, commit_message, pc, flag, hint, retval, exc, calls, reads>>

(***************************************************************************)
(* Bounds of the checked inputs.                                           *)
(***************************************************************************)
\* the largest number of lines of a generated file
MaxLines == 5
\* the largest number of tokens after the commit type of a generated title
MaxTail == 4
\* the same, for the titles of the commit types other than feat
MaxShortTail == 2

(***************************************************************************)
(* Python values: an object is a record tagged with its type.              *)
(***************************************************************************)
PyNone == [type |-> "NoneType"]
PyBool(b) == [type |-> "bool", val |-> b]
PyInt(n) == [type |-> "int", val |-> n]
PyList(xs) == [type |-> "list", val |-> xs]
PyTuple(xs) == [type |-> "tuple", val |-> xs]

\* what a rule call gives: a (flag, hint) tuple, or an exception
Returns(f, h) == [exc |-> "", flag |-> f, hint |-> h]
Raises(e) == [exc |-> e, flag |-> FALSE, hint |-> PyNone]

(***************************************************************************)
(* The str methods the rules use.                                          *)
(***************************************************************************)
Rep(c, n) == [i \in 1..n |-> c]

\* the characters str.strip() and str.split() take as whitespace
IsSpace(c) == c \in {" ", "\n", "\t", "\r", "\f"}

IsDigit(c) == c \in {"0", "1", "2", "3", "4", "5", "6", "7", "8", "9"}

RECURSIVE lstrip(_)
lstrip(s) ==
    IF s = <<>> THEN s
    ELSE IF IsSpace(Head(s)) THEN lstrip(Tail(s)) ELSE s

RECURSIVE rstrip(_)
rstrip(s) ==
    IF s = <<>> THEN s
    ELSE IF IsSpace(s[Len(s)]) THEN rstrip(SubSeq(s, 1, Len(s) - 1)) ELSE s

\* s.strip()
strip(s) == rstrip(lstrip(s))

\* s.startswith(p)
startswith(s, p) == Len(s) >= Len(p) /\ SubSeq(s, 1, Len(p)) = p

\* the places where p occurs in s
Occurrences(s, p) ==
    {i \in 1..(Len(s) - Len(p) + 1) : SubSeq(s, i, i + Len(p) - 1) = p}

\* p in s
contains(s, p) == Occurrences(s, p) # {}

\* the first place where p occurs in s (p in s)
find(s, p) == CHOOSE i \in Occurrences(s, p) : \A j \in Occurrences(s, p) : i <= j

\* s.split(sep)
RECURSIVE split_sep(_, _)
split_sep(s, sep) ==
    IF ~contains(s, sep) THEN <<s>>
    ELSE LET i == find(s, sep)
         IN  <<SubSeq(s, 1, i - 1)>> \o split_sep(SubSeq(s, i + Len(sep), Len(s)), sep)

\* the length of the run of non-whitespace characters s starts with
RECURSIVE WordLen(_)
WordLen(s) ==
    IF s = <<>> \/ IsSpace(Head(s)) THEN 0 ELSE 1 + WordLen(Tail(s))

\* s.split(): the runs of non-whitespace characters of s
RECURSIVE split(_)
split(s) ==
    LET t == lstrip(s)
    IN  IF t = <<>> THEN <<>>
        ELSE <<SubSeq(t, 1, WordLen(t))>> \o split(SubSeq(t, WordLen(t) + 1, Len(t)))

\* s.isdigit()
isdigit(s) == s # <<>> /\ \A i \in 1..Len(s) : IsDigit(s[i])

\* f.readlines(): the lines of a text, each with its line end
RECURSIVE readlines(_)
readlines(text) ==
    IF text = <<>> THEN <<>>
    ELSE IF contains(text, <<"\n">>)
         THEN LET i == find(text, <<"\n">>)
              IN  <<SubSeq(text, 1, i)>> \o readlines(SubSeq(text, i + 1, Len(text)))
         ELSE <<text>>

(***************************************************************************)
(* COMMIT TRANSFORMER                                                      *)
(***************************************************************************)
RECURSIVE drop_comments(_)
drop_comments(ls) ==
    IF ls = <<>> THEN <<>>
    ELSE IF startswith(strip(Head(ls)), <<"#">>)
         THEN drop_comments(Tail(ls))
         ELSE <<Head(ls)>> \o drop_comments(Tail(ls))

get_commit_message(text, keep_comments) ==
    IF keep_comments THEN readlines(text) ELSE drop_comments(readlines(text))

(***************************************************************************)
(* Validators.  commit_message[i] of Python is item(commit_message, i),    *)
(* which raises IndexError out of range; commit_message[lo:hi] is slice.   *)
(***************************************************************************)
InRange(ls, i) == -Len(ls) <= i /\ i < Len(ls)

item(ls, i) == IF i >= 0 THEN ls[i + 1] ELSE ls[Len(ls) + i + 1]

\* a slice bound, as Python clamps it
Clamp(n, i) == IF i < 0 THEN (IF n + i < 0 THEN 0 ELSE n + i) ELSE (IF i > n THEN n ELSE i)

slice(ls, lo, hi) == SubSeq(ls, Clamp(Len(ls), lo) + 1, Clamp(Len(ls), hi))

\* a variant with the bound off by one: len(commit_message) >= 3
has_title_and_body_off_by_one(cm) == Returns(Len(cm) >= 3, PyNone)

has_title_and_body(cm) == Returns(Len(cm) >= 4, PyNone)

max_length == 50

title_within_max_length(cm) ==
    IF ~InRange(cm, 0) THEN Raises("IndexError")
    ELSE LET title == item(cm, 0)
         IN  IF Len(title) > max_length
             THEN Returns(FALSE, PyInt(max_length))
             ELSE Returns(TRUE, PyNone)

has_title_body_separator(cm) ==
    IF ~InRange(cm, 1) THEN Raises("IndexError")
    ELSE Returns(strip(item(cm, 1)) = <<>>, PyNone)

has_trailing_line(cm) ==
    IF ~InRange(cm, -1) THEN Raises("IndexError")
    ELSE Returns(strip(item(cm, -1)) = <<>>, PyNone)

max_body_length == 72

\* the loop of body_within_max_length, from the line at place k of body on
RECURSIVE body_scan(_, _)
body_scan(body, k) ==
    IF k > Len(body) THEN Returns(TRUE, PyNone)
    ELSE IF Len(body[k]) > max_body_length THEN Returns(FALSE, PyInt(k))
    ELSE body_scan(body, k + 1)

\* a variant that keeps the trailing line in the body: commit_message[2:]
body_within_max_length_to_end(cm) == body_scan(slice(cm, 2, Len(cm)), 1)

body_within_max_length(cm) == body_scan(slice(cm, 2, -1), 1)

valid_commit_types ==
    <<<<"f", "e", "a", "t">>,
      <<"f", "i", "x">>,
      <<"r", "e", "f", "a", "c", "t", "o", "r">>,
      <<"s", "t", "y", "l", "e">>,
      <<"d", "o", "c", "s">>,
      <<"t", "e", "s", "t">>,
      <<"c", "h", "o", "r", "e">>,
      <<"r", "e", "v", "e", "r", "t">>>>

\* the loop of title_starts_with_commit_type, from the k-th commit type on
RECURSIVE commit_type_scan(_, _)
commit_type_scan(title, k) ==
    IF k > Len(valid_commit_types) THEN Returns(FALSE, PyList(valid_commit_types))
    ELSE IF startswith(title, valid_commit_types[k] \o <<":">>) THEN Returns(TRUE, PyNone)
    ELSE commit_type_scan(title, k + 1)

title_starts_with_commit_type(cm) ==
    IF ~InRange(cm, 0) THEN Raises("IndexError")
    ELSE commit_type_scan(item(cm, 0), 1)

\* a variant that requires an issue number of every commit type
commit_type_require_issue_number_always(cm) ==
    IF ~InRange(cm, 0) THEN Raises("IndexError") ELSE Returns(TRUE, PyNone)

commit_type_require_issue_number(cm) ==
    IF ~InRange(cm, 0) THEN Raises("IndexError")
    ELSE LET title == item(cm, 0)
         IN  IF startswith(title, <<"f", "e", "a", "t", ":">>) \/ startswith(title, <<"f", "i", "x", ":">>)
             THEN Returns(TRUE, PyNone)
             ELSE Returns(FALSE, PyNone)

valid_issue_tracker_prefixes ==
    <<PyTuple(<<<<"j", "r", ":">>, "jira">>), PyTuple(<<<<"g", "h", ":">>, "github">>),
      PyTuple(<<<<"g", "l", ":">>, "gitlab">>), PyTuple(<<<<"b", "b", ":">>, "bitbucket">>),
      PyTuple(<<<<"l", "p", ":">>, "launchpad">>)>>

\* title.split(issue_tracker)[1].split()[0], and the test of it
issue_number_check(title, issue_tracker) ==
    LET parts == split_sep(title, issue_tracker)
        words == IF Len(parts) >= 2 THEN split(parts[2]) ELSE <<>>
    IN  IF Len(parts) < 2 \/ words = <<>> THEN Raises("IndexError")
        ELSE IF isdigit(words[1]) THEN Returns(TRUE, PyNone)
        ELSE Returns(FALSE, PyTuple(<<PyNone, PyBool(FALSE)>>))

\* the loop of title_has_issue_number, from the k-th tracker on
RECURSIVE issue_tracker_scan(_, _)
issue_tracker_scan(title, k) ==
    IF k > Len(valid_issue_tracker_prefixes)
    THEN Returns(FALSE, PyList(valid_issue_tracker_prefixes))
    ELSE IF contains(title, valid_issue_tracker_prefixes[k].val[1])
    THEN issue_number_check(title, valid_issue_tracker_prefixes[k].val[1])
    ELSE issue_tracker_scan(title, k + 1)

\* a variant that passes a title holding no tracker prefix
title_has_issue_number_lax(cm) ==
    IF ~InRange(cm, 0) THEN Raises("IndexError")
    ELSE IF issue_tracker_scan(item(cm, 0), 1).hint.type = "list"
    THEN Returns(TRUE, PyNone)
    ELSE issue_tracker_scan(item(cm, 0), 1)

title_has_issue_number(cm) ==
    IF ~InRange(cm, 0) THEN Raises("IndexError")
    ELSE issue_tracker_scan(item(cm, 0), 1)

(***************************************************************************)
(* LINTER: lint_commit_message, one action per rule call.                  *)
(***************************************************************************)
Called(rule, r) == [rule |-> rule, exc |-> r.exc, flag |-> r.flag]

\* flag, hint = rule(commit_message); if not flag: ... return 1, else go on
Check(rule, r, access, next) ==
    /\ pc = rule
    /\ calls' = Append(calls, Called(rule, r))
    /\ reads' = reads \cup access
    /\ IF r.exc # ""
       THEN /\ pc' = "raised"
            /\ exc' = r.exc
            /\ UNCHANGED <<flag, hint, retval>>
       ELSE /\ flag' = r.flag
            /\ hint' = r.hint
            /\ exc' = exc
            /\ IF ~r.flag
               THEN pc' = "returned" /\ retval' = 1
               ELSE pc' = next /\ retval' = retval
    /\ UNCHANGED <<file, commit_message>>

GetCommitMessage ==
    /\ pc = "get_commit_message"
    /\ commit_message' = get_commit_message(file, FALSE)
    /\ pc' = "has_title_and_body"
    /\ UNCHANGED <<file, flag, hint, retval, exc, calls, reads>>

HasTitleAndBody ==
    Check("has_title_and_body", has_title_and_body(commit_message),
          {}, "title_within_max_length")

TitleWithinMaxLength ==
    Check("title_within_max_length", title_within_max_length(commit_message),
          {"[0]"}, "has_title_body_separator")

HasTitleBodySeparator ==
    Check("has_title_body_separator", has_title_body_separator(commit_message),
          {"[1]"}, "has_trailing_line")

HasTrailingLine ==
    Check("has_trailing_line", has_trailing_line(commit_message),
          {"[-1]"}, "body_within_max_length")

BodyWithinMaxLength ==
    Check("body_within_max_length", body_within_max_length(commit_message),
          {"[2:-1]"}, "title_starts_with_commit_type")

TitleStartsWithCommitType ==
    Check("title_starts_with_commit_type", title_starts_with_commit_type(commit_message),
          {"[0]"}, "commit_type_require_issue_number")

\* the gate: `if flag is False` goes to the final return 0
CommitTypeRequireIssueNumber ==
    LET r == commit_type_require_issue_number(commit_message)
    IN  /\ pc = "commit_type_require_issue_number"
        /\ calls' = Append(calls, Called("commit_type_require_issue_number", r))
        /\ reads' = reads \cup {"[0]"}
        /\ IF r.exc # ""
           THEN /\ pc' = "raised"
                /\ exc' = r.exc
                /\ UNCHANGED <<flag, hint, retval>>
           ELSE /\ flag' = r.flag
                /\ hint' = r.hint
                /\ exc' = exc
                /\ IF r.flag = FALSE
                   THEN pc' = "returned" /\ retval' = 0
                   ELSE pc' = "title_has_issue_number" /\ retval' = retval
        /\ UNCHANGED <<file, commit_message>>

\* the nested check: a pass goes to the final return 0, a failure to its report
TitleHasIssueNumber ==
    LET r == title_has_issue_number(commit_message)
    IN  /\ pc = "title_has_issue_number"
        /\ calls' = Append(calls, Called("title_has_issue_number", r))
        /\ reads' = reads \cup {"[0]"}
        /\ IF r.exc # ""
           THEN /\ pc' = "raised"
                /\ exc' = r.exc
                /\ UNCHANGED <<flag, hint, retval>>
           ELSE /\ flag' = r.flag
                /\ hint' = r.hint
                /\ exc' = exc
                /\ IF ~r.flag
                   THEN pc' = "report_issue_number" /\ retval' = retval
                   ELSE pc' = "returned" /\ retval' = 0
        /\ UNCHANGED <<file, commit_message>>

\* `handle, name = x` works on a list or tuple of two items
Unpacks(x) == x.type \in {"list", "tuple"} /\ Len(x.val) = 2

\* `for handle, name in hint:` over the items of hint
tracker_hints(h) ==
    IF h.type \notin {"list", "tuple"} THEN "TypeError"
    ELSE IF \E i \in 1..Len(h.val) : ~Unpacks(h.val[i])
    THEN (LET i == CHOOSE k \in 1..Len(h.val) :
                       ~Unpacks(h.val[k]) /\ \A j \in 1..(k - 1) : Unpacks(h.val[j])
          IN  IF h.val[i].type \in {"list", "tuple"} THEN "ValueError" ELSE "TypeError")
    ELSE ""

\* the report of a failed title_has_issue_number, and its return 1
ReportIssueNumber ==
    /\ pc = "report_issue_number"
    /\ IF tracker_hints(hint) # ""
       THEN pc' = "raised" /\ exc' = tracker_hints(hint) /\ retval' = retval
       ELSE pc' = "returned" /\ retval' = 1 /\ exc' = exc
    /\ UNCHANGED <<file, commit_message, flag, hint, calls, reads>>

(***************************************************************************)
(* The message files checked.                                              *)
(***************************************************************************)
NL == <<"\n">>

\* the text of a file: its lines, each ended by a newline but, without eof_nl,
\* the last one
RECURSIVE Text(_, _)
Text(ls, eof_nl) ==
    IF ls = <<>> THEN <<>>
    ELSE IF Len(ls) = 1 THEN (IF eof_nl THEN ls[1] \o NL ELSE ls[1])
    ELSE ls[1] \o NL \o Text(Tail(ls), eof_nl)

\* lines after the first one: blank, of 72 and of 73 characters with the
\* newline, 73 of whitespace, and a comment
BodyLines ==
    { <<>>, Rep("b", max_body_length - 1), Rep("b", max_body_length),
      Rep(" ", max_body_length), <<"#", " ", "c">> }

\* first lines of the files that vary the lines after it
FirstLines ==
    { <<"c", "h", "o", "r", "e", ":">> \o <<" ", "x">>, <<"c", "h", "o", "r", "e", ":">> \o Rep("x", max_length - 6), <<" ", "#">> }

RECURSIVE LineSeqs(_)
LineSeqs(n) ==
    IF n = 0 THEN {<<>>}
    ELSE LineSeqs(n - 1) \cup
         {ls \o <<l>> : ls \in {x \in LineSeqs(n - 1) : Len(x) = n - 1 /\ n > 1},
                        l \in BodyLines} \cup
         {<<l>> : l \in {x \in FirstLines : n = 1}}

StructureFiles == {Text(ls, e) : ls \in LineSeqs(MaxLines), e \in BOOLEAN}

\* what a title is made of after its commit type
Tokens == { <<" ">>, <<"1">>, <<"a">>, <<"j", "r", ":">>, <<"g", "h", ":">>, <<"l", "p", ":">> }

RECURSIVE Tails(_)
Tails(n) ==
    IF n = 0 THEN {<<>>}
    ELSE {<<>>} \cup {t \o r : t \in Tokens, r \in Tails(n - 1)}

\* titles: feat with every tail, the other commit types, a type without its
\* colon and no type with the short tails, and titles of 50 and 51 characters
Titles ==
    {<<"f", "e", "a", "t", ":">> \o t : t \in Tails(MaxTail)}
    \cup {h \o t : h \in {valid_commit_types[k] \o <<":">> :
                            k \in 2..Len(valid_commit_types)}
                        \cup {<<"c", "h", "o", "r", "e">>, <<>>},
                   t \in Tails(MaxShortTail)}
    \cup {<<"f", "e", "a", "t", ":">> \o <<" ">> \o <<"g", "h", ":">> \o Rep("1", n) : n \in {max_length - 10, max_length - 9}}

TitleFiles == {Text(<<t, <<>>, <<"b">>, <<>>>>, TRUE) : t \in Titles}

Files == StructureFiles \cup TitleFiles

Init ==
    /\ file \in Files
    /\ commit_message = <<>>
    /\ pc = "get_commit_message"
    /\ flag = FALSE
    /\ hint = PyNone
    /\ retval = -1
    /\ exc = ""
    /\ calls = <<>>
    /\ reads = {}

Next ==
    \/ GetCommitMessage
    \/ HasTitleAndBody
    \/ TitleWithinMaxLength
    \/ HasTitleBodySeparator
    \/ HasTrailingLine
    \/ BodyWithinMaxLength
    \/ TitleStartsWithCommitType
    \/ CommitTypeRequireIssueNumber
    \/ TitleHasIssueNumber
    \/ ReportIssueNumber

Spec == Init /\ [][Next]_vars

(***************************************************************************)
(* Vocabulary of the properties.                                           *)
(***************************************************************************)
Terminal == pc \in {"returned", "raised"}

RuleOrder ==
    <<"has_title_and_body", "title_within_max_length", "has_title_body_separator",
      "has_trailing_line", "body_within_max_length", "title_starts_with_commit_type",
      "commit_type_require_issue_number", "title_has_issue_number">>

\* the i-th rule call returned a failure (the gate's False is not one)
FailedCall(i) ==
    /\ calls[i].exc = ""
    /\ ~calls[i].flag
    /\ calls[i].rule # "commit_type_require_issue_number"

\* the i-th rule call returned a pass (the gate always does)
PassedCall(i) ==
    /\ calls[i].exc = ""
    /\ calls[i].flag \/ calls[i].rule = "commit_type_require_issue_number"

CalledRule(rule) == \E i \in 1..Len(calls) : calls[i].rule = rule

LastCall == calls[Len(calls)]

Title == commit_message[1]

Prefix(k) == valid_issue_tracker_prefixes[k].val[1]

HasTracker(t) == \E k \in 1..Len(valid_issue_tracker_prefixes) : contains(t, Prefix(k))

\* the first prefix, in the order of the catalog, that occurs in t
FirstTracker(t) ==
    Prefix(CHOOSE k \in 1..Len(valid_issue_tracker_prefixes) :
               /\ contains(t, Prefix(k))
               /\ \A j \in 1..(k - 1) : ~contains(t, Prefix(j)))

\* what follows the first occurrence in t of its first prefix
Following(t) ==
    SubSeq(t, find(t, FirstTracker(t)) + Len(FirstTracker(t)), Len(t))

\* the run of non-whitespace characters right after that occurrence
FollowingRun(t) == SubSeq(Following(t), 1, WordLen(Following(t)))

NumberMissing(h) ==
    /\ h.type = "tuple"
    /\ Len(h.val) = 2
    /\ h.val[1].type = "NoneType"
    /\ h.val[2].type = "bool"
    /\ h.val[2].val = FALSE

RequiresIssue(t) == startswith(t, <<"f", "e", "a", "t", ":">>) \/ startswith(t, <<"f", "i", "x", ":">>)

NoIssueType(t) ==
    \E k \in 3..Len(valid_commit_types) : startswith(t, valid_commit_types[k] \o <<":">>)

PassesRules1to4(cm) ==
    /\ Len(cm) >= 4
    /\ Len(cm[1]) <= max_length
    /\ strip(cm[2]) = <<>>
    /\ strip(cm[Len(cm)]) = <<>>

\* the places, counted within lines[2:-1], of the lines longer than 72
LongBodyLines(cm) == {k \in 1..(Len(cm) - 3) : Len(cm[k + 2]) > max_body_length}

Least(S) == CHOOSE x \in S : \A y \in S : x <= y

PassesRules1to6(cm) ==
    /\ PassesRules1to4(cm)
    /\ LongBodyLines(cm) = {}
    /\ \E k \in 1..Len(valid_commit_types) : startswith(cm[1], valid_commit_types[k] \o <<":">>)

(***************************************************************************)
(* The properties.                                                         *)
(***************************************************************************)

\* C1: the rules are called in the fixed order, and once a rule fails no later
\* rule is called: the failing call is the last one, as many calls were made as
\* its place in the order, and the run returns that rule's failure.
C1_FailFastVerdict ==
    /\ Len(calls) <= Len(RuleOrder)
    /\ \A i \in 1..Len(calls) : calls[i].rule = RuleOrder[i]
    /\ Terminal =>
         \A i \in 1..Len(calls) :
             FailedCall(i) => i = Len(calls) /\ pc = "returned" /\ retval = 1

\* C2: no run ends in an exception: every run that ends, ends by returning
\* the verdict 0 (AllPassed) or 1 (FailedAt).
C2_NoException ==
    Terminal => pc = "returned" /\ exc = "" /\ retval \in {0, 1}

\* C3: lint_commit_message returns 0 exactly when every rule called passed,
\* and returns 1 whenever a rule fails.
C3_ExitStatus ==
    Terminal =>
      /\ (pc = "returned" /\ retval = 0) <=> (\A i \in 1..Len(calls) : PassedCall(i))
      /\ (\E i \in 1..Len(calls) : FailedCall(i)) => pc = "returned" /\ retval = 1

\* C4: a message of fewer than 4 lines fails at has_title_and_body, the only
\* rule called, and no positional access into the message is made.
C4_ShortMessage ==
    (pc # "get_commit_message" /\ Len(commit_message) < 4) =>
      /\ reads = {}
      /\ pc \in {"has_title_and_body", "returned"}
      /\ pc = "returned" =>
           /\ retval = 1
           /\ Len(calls) = 1
           /\ calls[1].rule = "has_title_and_body"
           /\ FailedCall(1)

C4_Witness ==
    /\ pc = "returned"
    /\ Len(commit_message) = 3
    /\ Len(readlines(file)) > 3
    /\ retval = 1

\* C5: on a title that holds a tracker prefix, title_has_issue_number passes
\* exactly when the run of non-whitespace characters right after the first
\* occurrence of the first prefix (in catalog order) is non-empty and all digits.
C5_IssueNumberRun ==
    \A i \in 1..Len(calls) :
        (calls[i].rule = "title_has_issue_number" /\ HasTracker(Title)) =>
            ((calls[i].exc = "" /\ calls[i].flag) <=> isdigit(FollowingRun(Title)))

\* C6: when the first matching prefix is followed by nothing but whitespace,
\* title_has_issue_number returns the failure (False, (None, False)).
C6_EmptyRemainder ==
    \A i \in 1..Len(calls) :
        (/\ calls[i].rule = "title_has_issue_number"
         /\ HasTracker(Title)
         /\ strip(Following(Title)) = <<>>) =>
            (calls[i].exc = "" /\ ~calls[i].flag /\ NumberMissing(hint))

\* C7: title_has_issue_number is called only on a title that starts with
\* feat: or fix:, and a message that passes rules 1 to 6 and whose title
\* starts with another commit type returns 0, whatever tracker it holds.
C7_GateSkipsIssueNumber ==
    /\ CalledRule("title_has_issue_number") => RequiresIssue(Title)
    /\ (/\ Terminal
        /\ PassesRules1to6(commit_message)
        /\ NoIssueType(Title)) =>
           /\ pc = "returned"
           /\ retval = 0
           /\ ~CalledRule("title_has_issue_number")

C7_Witness ==
    /\ pc = "returned"
    /\ retval = 0
    /\ startswith(Title, <<"c", "h", "o", "r", "e", ":">>)
    /\ HasTracker(Title)
    /\ ~isdigit(FollowingRun(Title))

\* C8: a message that passes rules 1 to 4 and has a line longer than 72 in
\* lines[2:-1] fails at body_within_max_length with the 1-based place, within
\* lines[2:-1], of the first such line; with no such line the rule passes,
\* whatever the lengths of the title, the separator and the last line.
C8_BodyLength ==
    (Terminal /\ PassesRules1to4(commit_message)) =>
      IF LongBodyLines(commit_message) # {}
      THEN /\ pc = "returned"
           /\ retval = 1
           /\ LastCall.rule = "body_within_max_length"
           /\ FailedCall(Len(calls))
           /\ hint.type = "int"
           /\ hint.val = Least(LongBodyLines(commit_message))
      ELSE \E i \in 1..Len(calls) :
               calls[i].rule = "body_within_max_length" /\ PassedCall(i)

\* a failure at place 2, after a body line of exactly 72 characters, in a
\* message whose separator and last line are longer than 72
C8_Witness ==
    /\ pc = "returned"
    /\ LastCall.rule = "body_within_max_length"
    /\ hint.type = "int"
    /\ hint.val = 2
    /\ Len(commit_message[2]) > max_body_length
    /\ Len(commit_message[3]) = max_body_length
    /\ Len(commit_message[Len(commit_message)]) > max_body_length

\* C9: a message that passes rules 1 to 6, whose title starts with feat: or
\* fix: and whose first matching prefix is followed by a non-empty token that
\* is not all digits, returns the failure of title_has_issue_number with the
\* "number missing" hint.
C9_NonDigitToken ==
    (/\ Terminal
     /\ PassesRules1to6(commit_message)
     /\ RequiresIssue(Title)
     /\ HasTracker(Title)
     /\ FollowingRun(Title) # <<>>
     /\ ~isdigit(FollowingRun(Title))) =>
        /\ pc = "returned"
        /\ retval = 1
        /\ LastCall.rule = "title_has_issue_number"
        /\ NumberMissing(hint)

\* C10: a run that returns 0 had a message of at least 4 lines, with a title
\* of at most 50 characters, a blank second and last line, no line longer than
\* 72 in lines[2:-1], a title that starts with a commit type and a colon and,
\* when that type is feat or fix, holds a tracker prefix.
C10_AllPassedMessage ==
    (pc = "returned" /\ retval = 0) =>
      /\ Len(commit_message) >= 4
      /\ Len(commit_message[1]) <= max_length
      /\ strip(commit_message[2]) = <<>>
      /\ strip(commit_message[Len(commit_message)]) = <<>>
      /\ \A k \in 3..(Len(commit_message) - 1) : Len(commit_message[k]) <= max_body_length
      /\ \E k \in 1..Len(valid_commit_types) :
             startswith(Title, valid_commit_types[k] \o <<":">>)
      /\ RequiresIssue(Title) => HasTracker(Title)

C10_Witness ==
    /\ pc = "returned"
    /\ retval = 0
    /\ RequiresIssue(Title)
    /\ isdigit(FollowingRun(Title))

====
